---- MODULE Spec2Model ----
(***************************************************************************)
(* The MIDI monitor application core (aud/lib/src/apps/midimon/app.rs):    *)
(* the App on the application thread, the Host->Script and Script->Host    *)
(* bounded channels, the engine lifecycle channel and the script engine    *)
(* thread on the other end of the channels, with the script file watcher   *)
(* (src/files.rs); and the audio scope application                         *)
(* (src/commands/auscope/app.rs, aud/cli/src/auscope/mod.rs) with its      *)
(* capture channel.                                                        *)
(***************************************************************************)
EXTENDS Integers, Sequences, FiniteSets, TLC

\* ------------------------------------------------------------------ bounds
\* Capacity of the Host->Script channel (bounded(1_000) in App::new, scaled).
HostCap == 2
\* Capacity of the Script->Host channel (bounded(1_000) in App::new, scaled).
ScriptCap == 2
\* Number of inputs of a run: the MIDI messages the device produces plus the
\* load_script calls.
MaxInputs == 3
\* Number of enumerated MIDI input ports.
NumPorts == 2
\* Capacity of the file watcher's event channel (bounded(100) in
\* FsWatcher::run, scaled).
FsCap == 2
\* Capacity of the capture channel (bounded(100) in App::default, scaled).
CaptureCap == 2
\* Number of frames the audio device produces in a run.
MaxFrames == 3
\* Number of audio input devices; device d delivers frames of d channels.
NumDevices == 3
\* The capacity a bounded message buffer would be configured with (scaled).
MessageRingCap == 1

\* ------------------------------------------------------------------ values
None == 0

\* An event on a channel: its variant t, its payload a, and k, the number of
\* the load_script call a LoadScript / Loaded belongs to (0 otherwise).
Ev(t, a, k) == [t |-> t, a |-> a, k |-> k]

\* midi_in.list_midi_devices(): the names of the enumerated ports, distinct.
port_names == [i \in 1..NumPorts |-> 10 + i]

PortNameSet == {port_names[i] : i \in 1..NumPorts}

\* A device name no enumerated port has.
UnknownDevice == 10

\* ControlFlowApiEvent, the payload of a Control script event.
Pause == 1

Resume == 2

Stop == 3

\* Script paths: 1 is a regular file, 2 is a regular file whose content cannot
\* be read as a string, 3 does not exist.
Paths == {1, 2, 3}

\* A path check that takes every path for a regular file.
PathIsFileAlways(p) == p \in Paths

PathIsFile(p) == p \in {1, 2}

PathReadable(p) == p = 1

\* script_path.file_name(): the last component of the path.
FileName(p) == 20 + p

\* The host calls a script may make from its on_midi callback.
ScriptCalls == {"send_midi", "alert", "log", "connect", "pause", "resume", "stop"}

\* The result of an application operation, as its caller sees it.
Result(op, val, data) == [op |-> op, val |-> val, data |-> data]

Pending(op) == Result(op, "pending", <<>>)

\* The result of an audio operation: its value, the key or UI event it
\* handled and the device row the event names (None for none).
AuResult(op, val, ev, row) == [op |-> op, val |-> val, ev |-> ev, row |-> row]

VARIABLES
    hostQ,                 \* Host->Script channel (host_tx / host_rx)
    scriptQ,               \* Script->Host channel (script_tx / script_rx)
    engQ,                  \* engine lifecycle channel (lua_handle.events())
    engState,              \* engine thread: running, terminated, panicked, exited
    engScript,             \* load number of the script current in the engine
    script_chunk,          \* the host calls on_midi of the script file makes
    handle,                \* lua_handle still holds the join handle
    selected_port_name,
    selected_script_name,
    script_path,
    file_watcher,          \* path the installed FsWatcher watches, or None
    alert_message,
    messages,
    stream_active,         \* midi_in.is_midi_stream_active()
    appPc,                 \* where the application thread is
    caller,                \* the operation that called load_script
    loadPath,              \* the path of the load_script call in progress
    midiBatch,             \* messages of produce_midi_messages() still to forward
    nMidi,                 \* messages the device has produced so far
    nLoads,                \* load_script calls so far
    ret,                   \* result of the last operation that returned
    opLog,                 \* HostEvents the current operation has enqueued
    hadSelected,           \* a port was selected when load_script began
    terminateSent,         \* Terminate has been enqueued
    dropAttempts,          \* try-sends of Terminate made by drop
    joined,                \* drop has joined the engine thread
    nTerminated,           \* Terminated events the engine has emitted
    crashObserved,         \* process_engine_events has returned ScriptCrash
    sinceTake,             \* every Midi script event handled since the last take
    clearedAt,             \* length of sinceTake at the last clear_messages
    taken,                 \* messages take_messages has returned so far
    alertLog,              \* alerts handled since the alert was last taken
    fsQ,                   \* events channel of the installed FsWatcher
    fsBatch,               \* events the last process_file_events collected
    device_names,          \* audio App: device_names.items
    list_selected,         \* audio App: device_names.list.selected()
    selection,             \* audio App: name of the connected device
    is_running,
    show_usage,
    audio_buffer,          \* one sequence of samples per channel
    capQ,                  \* capture channel (sender / receiver)
    stream,                \* device of the open cpal stream, or None
    nFrames,               \* frames the device thread has produced so far
    app_stream,            \* TerminalApp: device of the stream its app holds
    auRet                  \* result of the last audio operation

chanVars == <<hostQ, scriptQ, engQ>>
engVars == <<engState, engScript, nTerminated, script_chunk>>
appVars == <<handle, selected_port_name, selected_script_name, script_path,
             file_watcher, alert_message, messages, stream_active>>
ctlVars == <<appPc, caller, loadPath, midiBatch, nMidi, nLoads>>
obsVars == <<ret, opLog, hadSelected, terminateSent, dropAttempts, joined,
             crashObserved, sinceTake, clearedAt, taken, alertLog>>
fsVars == <<fsQ, fsBatch>>
auVars == <<device_names, list_selected, selection, is_running, show_usage,
            audio_buffer, capQ, stream, nFrames, app_stream, auRet>>
vars == <<chanVars, engVars, appVars, ctlVars, obsVars, fsVars, auVars>>

\* The engine still holds host_rx: a send to a channel whose receiver is gone
\* fails with Disconnected.
RxAlive == engState # "exited"

\* host_tx.try_send(ev): enqueue unless the channel is full or disconnected.
TrySendOk(q) == RxAlive /\ Len(q) < HostCap

TrySend(q, ev) == IF TrySendOk(q) THEN Append(q, ev) ELSE q

\* What try_send adds to the log of enqueued events.
Logged(log, q, ev) == IF TrySendOk(q) THEN Append(log, ev.t) ELSE log

\* The audio application after App::default() and TerminalApp::default().
AudioInit ==
    /\ device_names = <<>> /\ list_selected = None /\ selection = None
    /\ is_running = TRUE /\ show_usage = FALSE
    /\ audio_buffer = <<>> /\ capQ = <<>> /\ stream = None /\ nFrames = 0
    /\ app_stream = None
    /\ auRet = AuResult("default", "Ok", "", None)

\* The state after App::new, with a script file whose on_midi makes the host
\* calls of the set calls.
InitWith(calls) ==
    /\ hostQ = <<>> /\ scriptQ = <<>> /\ engQ = <<>>
    /\ engState = "running" /\ engScript = None /\ nTerminated = 0
    /\ script_chunk = calls
    /\ handle = TRUE
    /\ selected_port_name = None /\ selected_script_name = None
    /\ script_path = None /\ file_watcher = None
    /\ alert_message = None /\ messages = <<>>
    /\ stream_active = TRUE
    /\ appPc = "idle" /\ caller = "none" /\ loadPath = None
    /\ midiBatch = <<>> /\ nMidi = 0 /\ nLoads = 0
    /\ ret = Result("new", "Ok", <<>>)
    /\ opLog = <<>> /\ hadSelected = FALSE
    /\ terminateSent = FALSE /\ dropAttempts = 0 /\ joined = FALSE
    /\ crashObserved = FALSE
    /\ sinceTake = <<>> /\ clearedAt = 0 /\ taken = {} /\ alertLog = <<>>
    /\ fsQ = <<>> /\ fsBatch = <<>>
    /\ AudioInit

\* Any script: on_midi may make every host call.
Init == InitWith(ScriptCalls)

\* ------------------------------------------------------------ handler state
\* The part of the application a handler running on the application thread
\* reads and writes, as one value: q is what is left of the Script->Host
\* channel, res the handler's result, loaded the load number of a Loaded it
\* dequeued.
Here ==
    [hostQ |-> hostQ, q |-> scriptQ, selected |-> selected_port_name,
     alert |-> alert_message, messages |-> messages, active |-> stream_active,
     log |-> opLog, sinceTake |-> sinceTake, clearedAt |-> clearedAt,
     alertLog |-> alertLog, res |-> "none", loaded |-> 0]

Commit(st) ==
    /\ hostQ' = st.hostQ
    /\ scriptQ' = st.q
    /\ selected_port_name' = st.selected
    /\ alert_message' = st.alert
    /\ messages' = st.messages
    /\ stream_active' = st.active
    /\ opLog' = st.log
    /\ sinceTake' = st.sinceTake
    /\ clearedAt' = st.clearedAt
    /\ alertLog' = st.alertLog

\* What Commit leaves alone.
handlerFrame == <<engQ, engVars, handle, selected_script_name, script_path,
                  file_watcher, caller, loadPath, midiBatch, nMidi, nLoads,
                  hadSelected, terminateSent, dropAttempts, joined,
                  crashObserved, taken>>

\* clear_messages() that clears nothing.
ClearMessagesKeeps(st) == st

\* clear_messages(): self.messages.clear().
ClearMessages(st) ==
    [st EXCEPT !.messages = <<>>, !.clearedAt = Len(st.sinceTake)]

\* connect_to_midi_input_by_index(port_index); devOk:
\* midi_in.connect_to_midi_device succeeds.
ConnectByIndex(st, port_index, devOk) ==
    IF port_index \notin 1..NumPorts
    THEN [st EXCEPT !.res = "Ok"]
    ELSE LET port_name == port_names[port_index]
             ev == Ev("Connect", port_name, 0)
         IN  IF ~devOk
             THEN [st EXCEPT !.res = "Err"]
             ELSE ClearMessages(
                      [st EXCEPT !.selected = port_name,
                                 !.hostQ = TrySend(st.hostQ, ev),
                                 !.log = Logged(st.log, st.hostQ, ev),
                                 !.res = "Ok"])

\* port_names.iter().position(|name| name == port_name), 0 for no position.
Position(port_name) ==
    IF port_name \in PortNameSet
    THEN CHOOSE i \in 1..NumPorts :
             /\ port_names[i] = port_name
             /\ \A j \in 1..(i - 1) : port_names[j] # port_name
    ELSE 0

\* connect_to_midi_input(port_name).
ConnectByName(st, port_name, devOk) ==
    IF Position(port_name) # 0
    THEN ConnectByIndex(st, Position(port_name), devOk)
    ELSE [st EXCEPT !.res = "Ok"]

\* handle_lua_log_request(request) that keeps the alert already in the slot.
HandleLuaLogRequestKeepsFirst(st, ev) ==
    IF ev.t = "Alert"
    THEN [st EXCEPT !.alert = IF st.alert = None THEN ev.a ELSE st.alert,
                    !.alertLog = Append(st.alertLog, ev.a)]
    ELSE st

\* handle_lua_log_request(request): Log is written to the log file, Alert
\* replaces the alert message.
HandleLuaLogRequest(st, ev) ==
    IF ev.t = "Alert"
    THEN [st EXCEPT !.alert = ev.a, !.alertLog = Append(st.alertLog, ev.a)]
    ELSE st

\* handle_lua_control_request(request): Pause and Resume set the stream
\* active flag and continue, Stop asks the application to stop.
HandleLuaControlRequest(st, ev) ==
    CASE ev.a = Pause -> [st EXCEPT !.active = FALSE, !.res = "Continue"]
      [] ev.a = Resume -> [st EXCEPT !.active = TRUE, !.res = "Continue"]
      [] OTHER -> [st EXCEPT !.res = "Stopping"]

\* handle_lua_connect_request(request): connect when the device is a port.
HandleLuaConnectRequest(st, ev, devOk) ==
    IF ev.a \in PortNameSet
    THEN ConnectByName(st, ev.a, devOk)
    ELSE [st EXCEPT !.res = "Ok"]

\* process_script_events(): handle the events of the Script->Host channel in
\* order until it is empty (Continue), a Loaded is dequeued (ScriptLoaded), a
\* Stop control request is dequeued (Stopping) or a connect request fails (Err).
RECURSIVE ProcessScriptEvents(_, _)
ProcessScriptEvents(st, devOk) ==
    IF st.q = <<>>
    THEN [st EXCEPT !.res = "Continue"]
    ELSE LET ev == Head(st.q)
             s1 == [st EXCEPT !.q = Tail(st.q)]
         IN  CASE ev.t = "Loaded" ->
                    [s1 EXCEPT !.res = "ScriptLoaded", !.loaded = ev.k]
               [] ev.t \in {"Log", "Alert"} ->
                    ProcessScriptEvents(HandleLuaLogRequest(s1, ev), devOk)
               [] ev.t = "Midi" ->
                    ProcessScriptEvents(
                        [s1 EXCEPT !.messages = Append(s1.messages, ev.a),
                                   !.sinceTake = Append(s1.sinceTake, ev.a)],
                        devOk)
               [] ev.t = "Connect" ->
                    LET s2 == HandleLuaConnectRequest(s1, ev, devOk)
                    IN  IF s2.res = "Err" THEN s2
                        ELSE ProcessScriptEvents(s2, devOk)
               [] OTHER ->
                    LET s2 == HandleLuaControlRequest(s1, ev)
                    IN  IF s2.res = "Stopping" THEN s2
                        ELSE ProcessScriptEvents(s2, devOk)

\* ------------------------------------------------- application operations
\* The application thread is between operations and the App has not been
\* dropped.
Idle == appPc = "idle"

\* connect_to_midi_input_by_index(port_index), called by the user.
ConnectToMidiInputByIndex ==
    /\ Idle
    /\ \E port_index \in 1..(NumPorts + 1), devOk \in BOOLEAN :
          LET st == ConnectByIndex([Here EXCEPT !.log = <<>>], port_index, devOk)
          IN  /\ Commit(st)
              /\ ret' = Result("connect", st.res, <<port_index>>)
    /\ UNCHANGED <<appPc, handlerFrame>>
    /\ UNCHANGED <<fsVars, auVars>>

\* connect_to_midi_input(port_name), called by the user.
ConnectToMidiInput ==
    /\ Idle
    /\ \E port_name \in PortNameSet \cup {UnknownDevice}, devOk \in BOOLEAN :
          LET st == ConnectByName([Here EXCEPT !.log = <<>>], port_name, devOk)
          IN  /\ Commit(st)
              /\ ret' = Result("connect", st.res, <<Position(port_name)>>)
    /\ UNCHANGED <<appPc, handlerFrame>>
    /\ UNCHANGED <<fsVars, auVars>>

\* take_messages() that returns a copy and leaves the buffer as it is.
TakeMessagesCopies ==
    /\ Idle
    /\ ret' = Result("take_messages", "Ok", messages)
    /\ messages' = messages
    /\ sinceTake' = <<>>
    /\ clearedAt' = 0
    /\ taken' = taken \cup {messages[i] : i \in 1..Len(messages)}
    /\ opLog' = <<>>
    /\ UNCHANGED <<chanVars, engVars, handle, selected_port_name,
                   selected_script_name, script_path, file_watcher,
                   alert_message, stream_active, ctlVars, hadSelected,
                   terminateSent, dropAttempts, joined, crashObserved, alertLog>>
    /\ UNCHANGED <<fsVars, auVars>>

\* take_messages(): std::mem::take(&mut self.messages).
TakeMessages ==
    /\ Idle
    /\ ret' = Result("take_messages", "Ok", messages)
    /\ messages' = <<>>
    /\ sinceTake' = <<>>
    /\ clearedAt' = 0
    /\ taken' = taken \cup {messages[i] : i \in 1..Len(messages)}
    /\ opLog' = <<>>
    /\ UNCHANGED <<chanVars, engVars, handle, selected_port_name,
                   selected_script_name, script_path, file_watcher,
                   alert_message, stream_active, ctlVars, hadSelected,
                   terminateSent, dropAttempts, joined, crashObserved, alertLog>>
    /\ UNCHANGED <<fsVars, auVars>>

\* take_alert(): self.alert_message.take().
TakeAlert ==
    /\ Idle
    /\ ret' = IF alert_message = None
              THEN Result("take_alert", "None", <<>>)
              ELSE Result("take_alert", "Some", <<alert_message>>)
    /\ alert_message' = None
    /\ alertLog' = <<>>
    /\ opLog' = <<>>
    /\ UNCHANGED <<chanVars, engVars, handle, selected_port_name,
                   selected_script_name, script_path, file_watcher,
                   messages, stream_active, ctlVars, hadSelected,
                   terminateSent, dropAttempts, joined, crashObserved,
                   sinceTake, clearedAt, taken>>
    /\ UNCHANGED <<fsVars, auVars>>

\* process_script_events() that throws away the events behind the one it
\* returns on.
ProcessScriptEventsCallDrains ==
    /\ Idle
    /\ \E devOk \in BOOLEAN :
          LET st == ProcessScriptEvents([Here EXCEPT !.log = <<>>], devOk)
          IN  /\ Commit([st EXCEPT !.q = <<>>])
              /\ ret' = Result("process_script_events", st.res, <<>>)
    /\ UNCHANGED <<appPc, handlerFrame>>
    /\ UNCHANGED <<fsVars, auVars>>

\* process_script_events(), called by the user.
ProcessScriptEventsCall ==
    /\ Idle
    /\ \E devOk \in BOOLEAN :
          LET st == ProcessScriptEvents([Here EXCEPT !.log = <<>>], devOk)
          IN  /\ Commit(st)
              /\ ret' = Result("process_script_events", st.res, <<>>)
    /\ UNCHANGED <<appPc, handlerFrame>>
    /\ UNCHANGED <<fsVars, auVars>>

\* process_engine_events(): Panicked returns ScriptCrash at once, Terminated
\* is logged.
RECURSIVE ProcessEngineEvents(_)
ProcessEngineEvents(q) ==
    IF q = <<>> THEN [q |-> q, res |-> "Continue"]
    ELSE IF Head(q) = "Panicked" THEN [q |-> Tail(q), res |-> "ScriptCrash"]
    ELSE ProcessEngineEvents(Tail(q))

ProcessEngineEventsCall ==
    /\ Idle
    /\ LET r == ProcessEngineEvents(engQ)
       IN  /\ engQ' = r.q
           /\ ret' = Result("process_engine_events", r.res, <<>>)
           /\ crashObserved' = (crashObserved \/ r.res = "ScriptCrash")
    /\ opLog' = <<>>
    /\ UNCHANGED <<hostQ, scriptQ, engVars, appVars, ctlVars, hadSelected,
                   terminateSent, dropAttempts, joined, sinceTake, clearedAt,
                   taken, alertLog>>
    /\ UNCHANGED <<fsVars, auVars>>

\* ------------------------------------------------------------ load_script
\* load_script(script), up to the point where the LoadScript event is built:
\* the path check, script_path and selected_script_name, the try-send of Stop,
\* the read of the file and the installation of the file watcher (watchOk:
\* FsWatcher::run succeeded).
LoadScriptBegin(op, p, watchOk) ==
    IF ~PathIsFile(p)
    THEN /\ ret' = Result(op, "Err", <<p>>)
         /\ opLog' = <<>>
         /\ UNCHANGED <<hostQ, script_path, selected_script_name, file_watcher,
                        appPc, caller, loadPath, nLoads, hadSelected>>
    ELSE /\ script_path' = p
         /\ selected_script_name' = FileName(p)
         /\ hostQ' = TrySend(hostQ, Ev("Stop", 0, 0))
         /\ opLog' = Logged(<<>>, hostQ, Ev("Stop", 0, 0))
         /\ IF ~PathReadable(p)
            THEN /\ ret' = Result(op, "Err", <<p>>)
                 /\ UNCHANGED <<file_watcher, appPc, caller, loadPath, nLoads,
                                hadSelected>>
            ELSE /\ file_watcher' = IF watchOk THEN p ELSE None
                 /\ nLoads' = nLoads + 1
                 /\ loadPath' = p
                 /\ caller' = op
                 /\ hadSelected' = (selected_port_name # None)
                 /\ appPc' = "ls_load"
                 /\ ret' = Pending(op)

\* The events channel of the installed watcher after a load_script: a load
\* that gets as far as FsWatcher::run replaces the watcher, and the new
\* watcher has a new, empty channel.
WatcherChannel == IF appPc' = "ls_load" THEN <<>> ELSE fsQ

\* load_script(script), called by the user.
LoadScript ==
    /\ Idle /\ nLoads + nMidi < MaxInputs
    /\ \E p \in Paths, watchOk \in BOOLEAN : LoadScriptBegin("load_script", p, watchOk)
    /\ UNCHANGED <<scriptQ, engQ, engVars, handle, selected_port_name,
                   alert_message, messages, stream_active, midiBatch, nMidi,
                   terminateSent, dropAttempts, joined, crashObserved,
                   sinceTake, clearedAt, taken, alertLog>>
    /\ fsQ' = WatcherChannel
    /\ UNCHANGED <<fsBatch, auVars>>

\* load_script_sync(script, timeout), called by the user: its load_script.
LoadScriptSync ==
    /\ Idle /\ nLoads + nMidi < MaxInputs
    /\ \E p \in Paths, watchOk \in BOOLEAN :
          LoadScriptBegin("load_script_sync", p, watchOk)
    /\ UNCHANGED <<scriptQ, engQ, engVars, handle, selected_port_name,
                   alert_message, messages, stream_active, midiBatch, nMidi,
                   terminateSent, dropAttempts, joined, crashObserved,
                   sinceTake, clearedAt, taken, alertLog>>
    /\ fsQ' = WatcherChannel
    /\ UNCHANGED <<fsBatch, auVars>>

\* The LoadScript event of the call in progress.
LoadScriptEvent == Ev("LoadScript", FileName(loadPath), nLoads)

\* load_script: host_tx.try_send(event).
LoadScriptSendLoad ==
    /\ appPc = "ls_load"
    /\ hostQ' = TrySend(hostQ, LoadScriptEvent)
    /\ opLog' = Logged(opLog, hostQ, LoadScriptEvent)
    /\ appPc' = "ls_discover"
    /\ UNCHANGED <<scriptQ, engQ, engVars, appVars, caller, loadPath,
                   midiBatch, nMidi, nLoads, ret, hadSelected, terminateSent,
                   dropAttempts, joined, crashObserved, sinceTake, clearedAt,
                   taken, alertLog>>
    /\ UNCHANGED <<fsVars, auVars>>

\* How load_script ends: its caller gets val, or load_script_sync goes on to
\* poll when load_script returned Ok.
LoadScriptReturn(val) ==
    IF caller = "load_script_sync" /\ val = "Ok"
    THEN /\ appPc' = "sync_poll"
         /\ ret' = ret
    ELSE /\ appPc' = "idle"
         /\ ret' = Result(caller, IF val = "Ok" THEN "Continue" ELSE val,
                          <<loadPath>>)

\* load_script: host_tx.try_send(Discover(port_names)), and the return when
\* no port is selected.
LoadScriptSendDiscover ==
    /\ appPc = "ls_discover"
    /\ hostQ' = TrySend(hostQ, Ev("Discover", NumPorts, 0))
    /\ opLog' = Logged(opLog, hostQ, Ev("Discover", NumPorts, 0))
    /\ IF selected_port_name # None
       THEN appPc' = "ls_connect" /\ ret' = ret
       ELSE LoadScriptReturn("Ok")
    /\ UNCHANGED <<scriptQ, engQ, engVars, appVars, caller, loadPath,
                   midiBatch, nMidi, nLoads, hadSelected, terminateSent,
                   dropAttempts, joined, crashObserved, sinceTake, clearedAt,
                   taken, alertLog>>
    /\ UNCHANGED <<fsVars, auVars>>

\* load_script: connect_to_midi_input(selected port)?, then Ok(Continue).
LoadScriptReconnect ==
    /\ appPc = "ls_connect"
    /\ \E devOk \in BOOLEAN :
          LET st == ConnectByName(Here, selected_port_name, devOk)
          IN  /\ Commit(st)
              /\ LoadScriptReturn(st.res)
    /\ UNCHANGED handlerFrame
    /\ UNCHANGED <<fsVars, auVars>>

\* load_script_sync: one process_script_events()? of the polling loop. The
\* loop ends with Ok on ScriptLoaded and with the error of a failed connect
\* request; otherwise it goes on, unless the deadline has elapsed.
LoadScriptSyncPoll ==
    /\ appPc = "sync_poll"
    /\ \E devOk \in BOOLEAN, elapsed \in BOOLEAN :
          LET st == ProcessScriptEvents(Here, devOk)
          IN  /\ Commit(st)
              /\ CASE st.res = "ScriptLoaded" ->
                        /\ appPc' = "idle"
                        /\ ret' = Result("load_script_sync", "Ok",
                                         <<nLoads, st.loaded>>)
                   [] st.res = "Err" \/ elapsed ->
                        /\ appPc' = "idle"
                        /\ ret' = Result("load_script_sync", "Err", <<nLoads>>)
                   [] OTHER ->
                        /\ appPc' = "sync_poll"
                        /\ ret' = ret
    /\ UNCHANGED handlerFrame
    /\ UNCHANGED <<fsVars, auVars>>

\* --------------------------------------------------------- wait_for_alert
\* wait_for_alert(timeout), called by the user: the loop is entered.
WaitForAlert ==
    /\ Idle
    /\ appPc' = "wait_loop"
    /\ ret' = Pending("wait_for_alert")
    /\ opLog' = <<>>
    /\ UNCHANGED <<chanVars, engVars, appVars, caller, loadPath, midiBatch,
                   nMidi, nLoads, hadSelected, terminateSent, dropAttempts,
                   joined, crashObserved, sinceTake, clearedAt, taken, alertLog>>
    /\ UNCHANGED <<fsVars, auVars>>

\* wait_for_alert: start.elapsed() < timeout holds and
\* process_script_events()? runs; its error is returned.
WaitForAlertPoll ==
    /\ appPc = "wait_loop"
    /\ \E devOk \in BOOLEAN :
          LET st == ProcessScriptEvents(Here, devOk)
          IN  /\ Commit(st)
              /\ IF st.res = "Err"
                 THEN /\ appPc' = "idle"
                      /\ ret' = Result("wait_for_alert", "Err", <<>>)
                 ELSE /\ appPc' = "wait_check"
                      /\ ret' = ret
    /\ UNCHANGED handlerFrame
    /\ UNCHANGED <<fsVars, auVars>>

\* wait_for_alert: after the poll, return Ok(self.take_alert()) when the
\* alert message is set, else go round the loop.
WaitForAlertCheck ==
    /\ appPc = "wait_check"
    /\ IF alert_message # None
       THEN /\ ret' = Result("wait_for_alert", "Some", <<alert_message>>)
            /\ alert_message' = None
            /\ alertLog' = <<>>
            /\ appPc' = "idle"
       ELSE /\ appPc' = "wait_loop"
            /\ UNCHANGED <<ret, alert_message, alertLog>>
    /\ UNCHANGED <<chanVars, engVars, handle, selected_port_name,
                   selected_script_name, script_path, file_watcher, messages,
                   stream_active, caller, loadPath, midiBatch, nMidi, nLoads,
                   opLog, hadSelected, terminateSent, dropAttempts, joined,
                   crashObserved, sinceTake, clearedAt, taken>>
    /\ UNCHANGED <<fsVars, auVars>>

\* wait_for_alert: the deadline has elapsed, Ok(self.take_alert()).
WaitForAlertTimeout ==
    /\ appPc = "wait_loop"
    /\ ret' = IF alert_message = None
              THEN Result("wait_for_alert", "None", <<>>)
              ELSE Result("wait_for_alert", "Some", <<alert_message>>)
    /\ alert_message' = None
    /\ alertLog' = <<>>
    /\ appPc' = "idle"
    /\ UNCHANGED <<chanVars, engVars, handle, selected_port_name,
                   selected_script_name, script_path, file_watcher, messages,
                   stream_active, caller, loadPath, midiBatch, nMidi, nLoads,
                   opLog, hadSelected, terminateSent, dropAttempts, joined,
                   crashObserved, sinceTake, clearedAt, taken>>
    /\ UNCHANGED <<fsVars, auVars>>

\* ---------------------------------------------------- process_file_events
\* The kinds of event the watcher reports: notify's Modify, Create and Remove
\* event kinds, and an error of the OS watcher.
FsEvents == {"Modify", "Create", "Delete", "Error"}

\* has_file_changed(event) that takes every event but an error for a change.
HasFileChangedAnyKind(event) == event # "Error"

\* has_file_changed(event): only a Modify event is a change; an error is
\* logged.
HasFileChanged(event) == event = "Modify"

\* The watcher thread reports an event on the channel of the installed
\* watcher.
WatcherPush ==
    /\ file_watcher # None
    /\ Len(fsQ) < FsCap
    /\ \E event \in FsEvents : fsQ' = Append(fsQ, event)
    /\ UNCHANGED <<chanVars, engVars, appVars, ctlVars, obsVars, fsBatch, auVars>>

\* process_file_events(): with a watcher installed, collect every pending
\* event, and on the first that is a change load_script(script_path) and
\* return its result; the events after it are not looked at.
ProcessFileEvents ==
    /\ Idle
    /\ IF file_watcher = None
       THEN /\ ret' = Result("process_file_events", "Continue", <<>>)
            /\ opLog' = <<>>
            /\ fsBatch' = <<>>
            /\ UNCHANGED <<hostQ, script_path, selected_script_name,
                           file_watcher, fsQ, appPc, caller, loadPath, nLoads,
                           hadSelected>>
       ELSE /\ fsBatch' = fsQ
            /\ fsQ' = <<>>
            /\ IF /\ \E i \in 1..Len(fsQ) : HasFileChanged(fsQ[i])
                  /\ script_path # None
               THEN /\ nLoads + nMidi < MaxInputs
                    /\ \E watchOk \in BOOLEAN :
                          LoadScriptBegin("process_file_events", script_path,
                                          watchOk)
               ELSE /\ ret' = Result("process_file_events", "Continue", <<>>)
                    /\ opLog' = <<>>
                    /\ UNCHANGED <<hostQ, script_path, selected_script_name,
                                   file_watcher, appPc, caller, loadPath,
                                   nLoads, hadSelected>>
    /\ UNCHANGED <<scriptQ, engQ, engVars, handle, selected_port_name,
                   alert_message, messages, stream_active, midiBatch, nMidi,
                   terminateSent, dropAttempts, joined, crashObserved,
                   sinceTake, clearedAt, taken, alertLog, auVars>>

\* -------------------------------------------------- process_midi_messages
\* process_midi_messages() that does not forward the first message of the
\* batch.
ProcessMidiMessagesLosesOne ==
    /\ Idle
    /\ \E n \in 0..(MaxInputs - nLoads - nMidi) :
          /\ midiBatch' = [i \in 1..(n - 1) |-> nMidi + i + 1]
          /\ nMidi' = nMidi + n
          /\ IF n < 2
             THEN /\ appPc' = "idle"
                  /\ ret' = Result("process_midi_messages", "Ok", <<>>)
             ELSE /\ appPc' = "midi_send"
                  /\ ret' = Pending("process_midi_messages")
    /\ opLog' = <<>>
    /\ UNCHANGED <<chanVars, engVars, appVars, caller, loadPath, nLoads,
                   hadSelected, terminateSent, dropAttempts, joined,
                   crashObserved, sinceTake, clearedAt, taken, alertLog>>
    /\ UNCHANGED <<fsVars, auVars>>

\* process_midi_messages(): midi_in.produce_midi_messages() yields the n
\* messages the device has received since the last call.
ProcessMidiMessages ==
    /\ Idle
    /\ \E n \in 0..(MaxInputs - nLoads - nMidi) :
          /\ midiBatch' = [i \in 1..n |-> nMidi + i]
          /\ nMidi' = nMidi + n
          /\ IF n = 0
             THEN /\ appPc' = "idle"
                  /\ ret' = Result("process_midi_messages", "Ok", <<>>)
             ELSE /\ appPc' = "midi_send"
                  /\ ret' = Pending("process_midi_messages")
    /\ opLog' = <<>>
    /\ UNCHANGED <<chanVars, engVars, appVars, caller, loadPath, nLoads,
                   hadSelected, terminateSent, dropAttempts, joined,
                   crashObserved, sinceTake, clearedAt, taken, alertLog>>
    /\ UNCHANGED <<fsVars, auVars>>

\* host_tx.send(ev) can complete: there is room, or the receiver is gone and
\* the send fails at once.
SendCompletes(q) == Len(q) < HostCap \/ ~RxAlive

\* process_midi_messages: host_tx.send(HostEvent::Midi(msg)) for the next
\* message of the batch; the send waits while the channel is full.
ProcessMidiSend ==
    /\ appPc = "midi_send"
    /\ SendCompletes(hostQ)
    /\ LET ev == Ev("Midi", Head(midiBatch), 0)
       IN  /\ hostQ' = TrySend(hostQ, ev)
           /\ opLog' = Logged(opLog, hostQ, ev)
    /\ midiBatch' = Tail(midiBatch)
    /\ IF Tail(midiBatch) = <<>>
       THEN /\ appPc' = "idle"
            /\ ret' = Result("process_midi_messages", "Ok", <<>>)
       ELSE /\ appPc' = "midi_send"
            /\ ret' = ret
    /\ UNCHANGED <<scriptQ, engQ, engVars, appVars, caller, loadPath, nMidi,
                   nLoads, hadSelected, terminateSent, dropAttempts, joined,
                   crashObserved, sinceTake, clearedAt, taken, alertLog>>
    /\ UNCHANGED <<fsVars, auVars>>

\* ------------------------------------------------------------------- drop
\* A shutdown that sends Terminate and leaves the App in use.
DropLeavesAppInUse ==
    /\ Idle
    /\ handle' = FALSE
    /\ opLog' = <<>>
    /\ ret' = Pending("drop")
    /\ IF ~handle
       THEN /\ appPc' = "dropped"
            /\ UNCHANGED <<hostQ, dropAttempts, terminateSent>>
       ELSE /\ dropAttempts' = dropAttempts + 1
            /\ hostQ' = TrySend(hostQ, Ev("Terminate", 0, 0))
            /\ terminateSent' = TrySendOk(hostQ)
            /\ appPc' = "idle"
    /\ UNCHANGED <<scriptQ, engQ, engVars, selected_port_name,
                   selected_script_name, script_path, file_watcher,
                   alert_message, messages, stream_active, caller, loadPath,
                   midiBatch, nMidi, nLoads, hadSelected, joined,
                   crashObserved, sinceTake, clearedAt, taken, alertLog>>
    /\ UNCHANGED <<fsVars, auVars>>

\* Drop for App: take the join handle, try-send Terminate once, and join the
\* engine thread only when that try-send succeeded.
Drop ==
    /\ Idle
    /\ handle' = FALSE
    /\ opLog' = <<>>
    /\ ret' = Pending("drop")
    /\ IF ~handle
       THEN /\ appPc' = "dropped"
            /\ UNCHANGED <<hostQ, dropAttempts, terminateSent>>
       ELSE /\ dropAttempts' = dropAttempts + 1
            /\ hostQ' = TrySend(hostQ, Ev("Terminate", 0, 0))
            /\ terminateSent' = TrySendOk(hostQ)
            /\ appPc' = IF TrySendOk(hostQ) THEN "drop_join" ELSE "dropped"
    /\ UNCHANGED <<scriptQ, engQ, engVars, selected_port_name,
                   selected_script_name, script_path, file_watcher,
                   alert_message, messages, stream_active, caller, loadPath,
                   midiBatch, nMidi, nLoads, hadSelected, joined,
                   crashObserved, sinceTake, clearedAt, taken, alertLog>>
    /\ UNCHANGED <<fsVars, auVars>>

\* drop: handle.join() returns once the engine thread has exited.
DropJoin ==
    /\ appPc = "drop_join"
    /\ engState = "exited"
    /\ appPc' = "dropped"
    /\ joined' = TRUE
    /\ UNCHANGED <<chanVars, engVars, appVars, caller, loadPath, midiBatch,
                   nMidi, nLoads, ret, opLog, hadSelected, terminateSent,
                   dropAttempts, crashObserved, sinceTake, clearedAt, taken,
                   alertLog>>
    /\ UNCHANGED <<fsVars, auVars>>

\* ------------------------------------------------------- the script engine
\* The engine thread is not part of the application core; it follows the
\* engine worker of the design: it takes HostEvents in order, runs the script
\* callbacks, and publishes ScriptEvents, discarding them when the
\* Script->Host channel is full, except Loaded, which it retries.
engFrame == <<script_chunk, appVars, ctlVars, obsVars>>

\* script_tx.try_send(ev) with the overflow discarded.
EnginePublish(q, ev) == IF Len(q) < ScriptCap THEN Append(q, ev) ELSE q

EngineHead(t) == engState = "running" /\ hostQ # <<>> /\ Head(hostQ).t = t

\* LoadScript compiles and runs: the script becomes current, Loaded is sent
\* (the engine waits for room on the channel).
EngineLoadOk ==
    /\ EngineHead("LoadScript")
    /\ Len(scriptQ) < ScriptCap
    /\ scriptQ' = Append(scriptQ, Ev("Loaded", 0, Head(hostQ).k))
    /\ engScript' = Head(hostQ).k
    /\ hostQ' = Tail(hostQ)
    /\ UNCHANGED <<engQ, engState, nTerminated, engFrame>>
    /\ UNCHANGED <<fsVars, auVars>>

\* LoadScript fails to compile or run: the error is an alert, no script is
\* installed.
EngineLoadFail ==
    /\ EngineHead("LoadScript")
    /\ scriptQ' = EnginePublish(scriptQ, Ev("Alert", 100 + Head(hostQ).k, 0))
    /\ engScript' = None
    /\ hostQ' = Tail(hostQ)
    /\ UNCHANGED <<engQ, engState, nTerminated, engFrame>>
    /\ UNCHANGED <<fsVars, auVars>>

\* The ScriptEvent a host call of on_midi(m) sends.
CallEvents(call, m) ==
    CASE call = "send_midi" -> {Ev("Midi", m, 0)}
      [] call = "alert" -> {Ev("Alert", m, 0)}
      [] call = "log" -> {Ev("Log", 0, 0)}
      [] call = "connect" ->
            {Ev("Connect", d, 0) : d \in PortNameSet \cup {UnknownDevice}}
      [] call = "pause" -> {Ev("Control", Pause, 0)}
      [] call = "resume" -> {Ev("Control", Resume, 0)}
      [] OTHER -> {Ev("Control", Stop, 0)}

\* What the on_midi callback of the script may send back for message m.
ScriptOutputs(m) == UNION {CallEvents(call, m) : call \in script_chunk}

\* Midi with a script installed: the callback runs and sends one event back.
EngineMidi ==
    /\ EngineHead("Midi")
    /\ engScript # None
    /\ \E out \in ScriptOutputs(Head(hostQ).a) :
          scriptQ' = EnginePublish(scriptQ, out)
    /\ hostQ' = Tail(hostQ)
    /\ UNCHANGED <<engQ, engVars, engFrame>>
    /\ UNCHANGED <<fsVars, auVars>>

\* Midi whose callback corrupts the interpreter: an alert, Panicked, and the
\* engine takes no further event.
EnginePanic ==
    /\ EngineHead("Midi")
    /\ engScript # None
    /\ scriptQ' = EnginePublish(scriptQ, Ev("Alert", Head(hostQ).a, 0))
    /\ engQ' = Append(engQ, "Panicked")
    /\ engState' = "panicked"
    /\ hostQ' = Tail(hostQ)
    /\ UNCHANGED <<engScript, nTerminated, engFrame>>
    /\ UNCHANGED <<fsVars, auVars>>

\* Stop, Discover, Connect, and Midi with no script installed: nothing is
\* sent back.
EngineOther ==
    /\ engState = "running" /\ hostQ # <<>>
    /\ \/ Head(hostQ).t \in {"Stop", "Discover", "Connect"}
       \/ Head(hostQ).t = "Midi" /\ engScript = None
    /\ hostQ' = Tail(hostQ)
    /\ UNCHANGED <<scriptQ, engQ, engVars, engFrame>>
    /\ UNCHANGED <<fsVars, auVars>>

\* Terminate: Terminated is emitted and the loop is left.
EngineTerminate ==
    /\ EngineHead("Terminate")
    /\ hostQ' = Tail(hostQ)
    /\ engQ' = Append(engQ, "Terminated")
    /\ nTerminated' = nTerminated + 1
    /\ engState' = "terminated"
    /\ UNCHANGED <<scriptQ, engScript, engFrame>>
    /\ UNCHANGED <<fsVars, auVars>>

\* The engine thread ends after leaving its loop: its end of the Host->Script
\* channel is dropped and a join on it returns.
EngineExit ==
    /\ engState \in {"terminated", "panicked"}
    /\ engState' = "exited"
    /\ UNCHANGED <<chanVars, engScript, nTerminated, engFrame>>
    /\ UNCHANGED <<fsVars, auVars>>

\* ---------------------------------------------------- the audio application
\* The MIDI application, which no audio operation touches.
midiVars == <<chanVars, engVars, appVars, ctlVars, obsVars, fsVars>>

\* x.name() of the input device d of host.input_devices(), distinct names.
DeviceName(d) == 30 + d

\* The number of channels of device.default_input_config() of device d.
Channels(d) == d

\* The sample of channel i of the frame numbered id.
Sample(id, i) == 10 * id + i

\* The frame numbered id that the stream of device d delivers: one sequence
\* of samples for each channel.
Frame(d, id) == [i \in 1..Channels(d) |-> <<Sample(id, i)>>]

\* The stream callback on the device thread: one non-blocking push of the
\* next frame on the capture channel; the frame is dropped when the channel
\* is full.
DevicePush ==
    /\ stream # None /\ nFrames < MaxFrames
    /\ nFrames' = nFrames + 1
    /\ capQ' = IF Len(capQ) < CaptureCap
               THEN Append(capQ, Frame(stream, nFrames + 1))
               ELSE capQ
    /\ UNCHANGED <<midiVars, device_names, list_selected, selection,
                   is_running, show_usage, audio_buffer, stream, app_stream,
                   auRet>>

\* update_device_list(): the names of the host's input devices; enumOk:
\* host.input_devices() succeeds.
UpdateDeviceList ==
    /\ \E enumOk \in BOOLEAN :
          IF enumOk
          THEN /\ device_names' = [d \in 1..NumDevices |-> DeviceName(d)]
               /\ list_selected' = None
               /\ auRet' = AuResult("update_device_list", "Ok", "", None)
          ELSE /\ auRet' = AuResult("update_device_list", "Err", "", None)
               /\ UNCHANGED <<device_names, list_selected>>
    /\ UNCHANGED <<midiVars, selection, is_running, show_usage, audio_buffer,
                   capQ, stream, nFrames, app_stream>>

\* Vec::resize(new_len, vec![]).
Resize(buf, new_len) ==
    IF new_len <= Len(buf)
    THEN SubSeq(buf, 1, new_len)
    ELSE buf \o [i \in 1..(new_len - Len(buf)) |-> <<>>]

\* update(), the body of the loop for one frame: shrink the buffer when the
\* frame has fewer channels, grow it when the frame has more, and append the
\* frame's channels to the buffer's, pairwise.
AppendFrame(audio, channel_data) ==
    LET b1 == IF Len(channel_data) < Len(audio)
              THEN Resize(audio, Len(audio) - Len(channel_data))
              ELSE audio
        b2 == IF Len(channel_data) > Len(b1)
              THEN b1 \o [i \in 1..(Len(channel_data) - Len(b1)) |-> <<>>]
              ELSE b1
    IN  [i \in 1..Len(b2) |->
            IF i <= Len(channel_data) THEN b2[i] \o channel_data[i] ELSE b2[i]]

\* update(): while let Ok(channel_data) = self.receiver.try_recv().
RECURSIVE Drain(_, _)
Drain(audio, q) ==
    IF q = <<>> THEN audio
    ELSE Drain(AppendFrame(audio, Head(q)), Tail(q))

\* update() that appends the frames of the channel newest first.
UpdateNewestFirst ==
    /\ IF ~is_running
       THEN /\ auRet' = AuResult("update", "Loop", "", None)
            /\ UNCHANGED <<audio_buffer, capQ>>
       ELSE /\ audio_buffer' =
                  Drain(audio_buffer, [i \in 1..Len(capQ) |-> capQ[Len(capQ) + 1 - i]])
            /\ capQ' = <<>>
            /\ auRet' = AuResult("update", "Continue", "", None)
    /\ UNCHANGED <<midiVars, device_names, list_selected, selection,
                   is_running, show_usage, stream, nFrames, app_stream>>

\* update(): nothing while paused, else drain the capture channel into the
\* audio buffer.
Update ==
    /\ IF ~is_running
       THEN /\ auRet' = AuResult("update", "Loop", "", None)
            /\ UNCHANGED <<audio_buffer, capQ>>
       ELSE /\ audio_buffer' = Drain(audio_buffer, capQ)
            /\ capQ' = <<>>
            /\ auRet' = AuResult("update", "Continue", "", None)
    /\ UNCHANGED <<midiVars, device_names, list_selected, selection,
                   is_running, show_usage, stream, nFrames, app_stream>>

\* What can go wrong in connect(): the enumeration fails, the selected name
\* is no longer a device, the pause of the open stream fails, the device has
\* no input configuration or the stream cannot be built.
ConnectOutcomes ==
    {"ok", "enumerate", "missing", "config"}
        \cup (IF stream # None THEN {"pause"} ELSE {})

\* connect(): open a stream on the device of the selected row, in place of
\* the stream that is open.
Connect(outcome) ==
    CASE outcome \in {"enumerate", "missing"} ->
            UNCHANGED <<selection, stream>>
      [] outcome = "pause" ->
            /\ stream' = None
            /\ UNCHANGED selection
      [] outcome = "config" ->
            /\ stream' = None
            /\ selection' = device_names[list_selected]
      [] OTHER ->
            /\ stream' = list_selected
            /\ selection' = device_names[list_selected]

\* device_names.list.next() and previous(): the cursor moves over the rows
\* and wraps around.
ListNext ==
    IF device_names = <<>> THEN list_selected
    ELSE IF list_selected = None THEN 1
    ELSE (list_selected % Len(device_names)) + 1

ListPrevious ==
    IF device_names = <<>> THEN list_selected
    ELSE IF list_selected \in {None, 1} THEN Len(device_names)
    ELSE list_selected - 1

\* The keys on_keypress tells apart; "x" is any other key.
Keys == {"?", "q", " ", "Down", "Up", "Enter", "x"}

\* on_keypress(key) of the App.
OnKeypress ==
    /\ \E key \in Keys :
          CASE key = "?" ->
                  /\ show_usage' = ~show_usage
                  /\ auRet' = AuResult("on_keypress", "Continue", key, None)
                  /\ UNCHANGED <<list_selected, selection, is_running,
                                 audio_buffer, stream>>
            [] key = "q" ->
                  /\ show_usage' = FALSE
                  /\ auRet' = AuResult("on_keypress",
                                       IF show_usage THEN "Continue" ELSE "Exit",
                                       key, None)
                  /\ UNCHANGED <<list_selected, selection, is_running,
                                 audio_buffer, stream>>
            [] key = " " ->
                  /\ is_running' = ~is_running
                  /\ auRet' = AuResult("on_keypress", "Continue", key, None)
                  /\ UNCHANGED <<list_selected, selection, show_usage,
                                 audio_buffer, stream>>
            [] key = "Down" ->
                  /\ list_selected' = ListNext
                  /\ auRet' = AuResult("on_keypress", "Continue", key, None)
                  /\ UNCHANGED <<selection, is_running, show_usage,
                                 audio_buffer, stream>>
            [] key = "Up" ->
                  /\ list_selected' = ListPrevious
                  /\ auRet' = AuResult("on_keypress", "Continue", key, None)
                  /\ UNCHANGED <<selection, is_running, show_usage,
                                 audio_buffer, stream>>
            [] key = "Enter" /\ list_selected # None ->
                  /\ is_running' = TRUE
                  /\ audio_buffer' = [i \in 1..Len(audio_buffer) |-> <<>>]
                  /\ \E outcome \in ConnectOutcomes :
                        /\ Connect(outcome)
                        /\ auRet' = AuResult("on_keypress",
                                             IF outcome = "ok" THEN "Continue"
                                             ELSE "Err",
                                             key, list_selected)
                  /\ UNCHANGED <<list_selected, show_usage>>
            [] OTHER ->
                  /\ auRet' = AuResult("on_keypress", "Continue", key, None)
                  /\ UNCHANGED <<list_selected, selection, is_running,
                                 show_usage, audio_buffer, stream>>
    /\ UNCHANGED <<midiVars, device_names, capQ, nFrames, app_stream>>

\* The events ui.on_keypress(key) hands to TerminalApp::on_keypress.
UiEvents == {"Continue", "Exit", "SelectDevice", "SelectScript"}

\* TerminalApp::on_keypress(key): Exit leaves the loop, every other event of
\* the UI continues; the selection of a device row (row: its index) does
\* nothing else.
TerminalOnKeypress ==
    /\ \E ev \in UiEvents, row \in 1..NumDevices :
          auRet' = AuResult("terminal_on_keypress",
                            IF ev = "Exit" THEN "Exit" ELSE "Continue",
                            ev, IF ev = "SelectDevice" THEN row ELSE None)
    /\ UNCHANGED <<midiVars, device_names, list_selected, selection,
                   is_running, show_usage, audio_buffer, capQ, stream,
                   nFrames, app_stream>>

\* ------------------------------------------------------------ specification
AppNext ==
    \/ ConnectToMidiInputByIndex
    \/ ConnectToMidiInput
    \/ TakeMessages
    \/ TakeAlert
    \/ ProcessScriptEventsCall
    \/ ProcessEngineEventsCall
    \/ LoadScript
    \/ LoadScriptSync
    \/ LoadScriptSendLoad
    \/ LoadScriptSendDiscover
    \/ LoadScriptReconnect
    \/ LoadScriptSyncPoll
    \/ WaitForAlert
    \/ WaitForAlertPoll
    \/ WaitForAlertCheck
    \/ WaitForAlertTimeout
    \/ ProcessMidiMessages
    \/ ProcessMidiSend
    \/ Drop
    \/ DropJoin

EngineNext ==
    \/ EngineLoadOk
    \/ EngineLoadFail
    \/ EngineMidi
    \/ EnginePanic
    \/ EngineOther
    \/ EngineTerminate
    \/ EngineExit

Next == AppNext \/ EngineNext

Spec == Init /\ [][Next]_vars

\* Loading: the user connects, loads scripts with and without waiting and
\* pumps the script events; the engine loads what it is sent.
InitLoad == InitWith({"send_midi"})

NextLoad ==
    \/ ConnectToMidiInputByIndex
    \/ ConnectToMidiInput
    \/ ProcessScriptEventsCall
    \/ LoadScript
    \/ LoadScriptSync
    \/ LoadScriptSendLoad
    \/ LoadScriptSendDiscover
    \/ LoadScriptReconnect
    \/ LoadScriptSyncPoll
    \/ EngineLoadOk
    \/ EngineLoadFail
    \/ EngineOther

SpecLoad == InitLoad /\ [][NextLoad]_vars

\* Shutdown: the user connects, loads, forwards MIDI to an echo script, pumps
\* the script and engine events and drops the App; the engine runs to its end.
InitShutdown == InitWith({"send_midi"})

NextShutdown ==
    \/ ConnectToMidiInputByIndex
    \/ ProcessScriptEventsCall
    \/ ProcessEngineEventsCall
    \/ LoadScript
    \/ LoadScriptSendLoad
    \/ LoadScriptSendDiscover
    \/ LoadScriptReconnect
    \/ ProcessMidiMessages
    \/ ProcessMidiSend
    \/ Drop
    \/ DropJoin
    \/ EngineNext

SpecShutdown == InitShutdown /\ [][NextShutdown]_vars

\* Messages: the user connects, loads, forwards MIDI to a script that sends
\* the message back or asks for a connect, pumps the script events and takes
\* the messages.
InitMessages == InitWith({"send_midi", "connect"})

NextMessages ==
    \/ ConnectToMidiInputByIndex
    \/ ConnectToMidiInput
    \/ TakeMessages
    \/ ProcessScriptEventsCall
    \/ LoadScript
    \/ LoadScriptSendLoad
    \/ LoadScriptSendDiscover
    \/ LoadScriptReconnect
    \/ ProcessMidiMessages
    \/ ProcessMidiSend
    \/ EngineLoadOk
    \/ EngineLoadFail
    \/ EngineMidi
    \/ EngineOther

SpecMessages == InitMessages /\ [][NextMessages]_vars

\* Alerts: the user connects, loads with and without waiting, forwards MIDI
\* to a script that alerts, logs or asks to stop, pumps the script events,
\* waits for alerts and takes them.
InitAlerts == InitWith({"alert", "log", "stop"})

NextAlerts ==
    \/ ConnectToMidiInputByIndex
    \/ TakeAlert
    \/ ProcessScriptEventsCall
    \/ LoadScript
    \/ LoadScriptSync
    \/ LoadScriptSendLoad
    \/ LoadScriptSendDiscover
    \/ LoadScriptReconnect
    \/ LoadScriptSyncPoll
    \/ WaitForAlert
    \/ WaitForAlertPoll
    \/ WaitForAlertCheck
    \/ WaitForAlertTimeout
    \/ ProcessMidiMessages
    \/ ProcessMidiSend
    \/ EngineLoadOk
    \/ EngineLoadFail
    \/ EngineMidi
    \/ EngineOther

SpecAlerts == InitAlerts /\ [][NextAlerts]_vars

\* Watching: the user loads scripts and pumps the file events; the watcher
\* reports events on the loaded script and the engine loads what it is sent.
InitWatch == InitWith({"send_midi"})

NextWatch ==
    \/ LoadScript
    \/ LoadScriptSendLoad
    \/ LoadScriptSendDiscover
    \/ WatcherPush
    \/ ProcessFileEvents
    \/ EngineLoadOk
    \/ EngineLoadFail
    \/ EngineOther

SpecWatch == InitWatch /\ [][NextWatch]_vars

\* Echo: the states after load_script_sync of a script whose on_midi sends the
\* message back has returned Ok and the engine has taken every event of the
\* load, with or without a port connected before and with or without the
\* watcher installed; from there the user forwards MIDI, pumps the script and engine events
\* and takes the messages, and the engine runs the callback.
InitEcho ==
    /\ hostQ = <<>> /\ scriptQ = <<>> /\ engQ = <<>>
    /\ engState = "running" /\ engScript = 1 /\ nTerminated = 0
    /\ script_chunk = {"send_midi"}
    /\ handle = TRUE
    /\ selected_port_name \in PortNameSet \cup {None}
    /\ selected_script_name = FileName(1)
    /\ script_path = 1 /\ file_watcher \in {1, None}
    /\ alert_message = None /\ messages = <<>>
    /\ stream_active = TRUE
    /\ appPc = "idle" /\ caller = "load_script_sync" /\ loadPath = 1
    /\ midiBatch = <<>> /\ nMidi = 0 /\ nLoads = 1
    /\ ret = Result("load_script_sync", "Ok", <<1, 1>>)
    /\ hadSelected = (selected_port_name # None)
    /\ opLog = IF hadSelected
               THEN <<"Stop", "LoadScript", "Discover", "Connect">>
               ELSE <<"Stop", "LoadScript", "Discover">>
    /\ terminateSent = FALSE /\ dropAttempts = 0 /\ joined = FALSE
    /\ crashObserved = FALSE
    /\ sinceTake = <<>> /\ clearedAt = 0 /\ taken = {} /\ alertLog = <<>>
    /\ fsQ = <<>> /\ fsBatch = <<>>
    /\ AudioInit

NextEcho ==
    \/ ProcessMidiMessages
    \/ ProcessMidiSend
    \/ EngineMidi
    \/ ProcessScriptEventsCall
    \/ ProcessEngineEventsCall
    \/ TakeMessages

SpecEcho == InitEcho /\ [][NextEcho]_vars

\* Scope: the audio application on its own: the user lists the devices,
\* presses keys and pumps update(), and the device thread delivers frames.
InitScope == InitWith({"send_midi"})

NextScope ==
    \/ UpdateDeviceList
    \/ OnKeypress
    \/ TerminalOnKeypress
    \/ Update
    \/ DevicePush

SpecScope == InitScope /\ [][NextScope]_vars

\* Events: the user loads scripts, forwards MIDI to a script that sends the
\* message back, alerts or asks to stop, and pumps the script events.
InitEvents == InitWith({"send_midi", "alert", "stop"})

NextEvents ==
    \/ ProcessScriptEventsCall
    \/ LoadScript
    \/ LoadScriptSendLoad
    \/ LoadScriptSendDiscover
    \/ ProcessMidiMessages
    \/ ProcessMidiSend
    \/ EngineLoadOk
    \/ EngineLoadFail
    \/ EngineMidi
    \/ EngineOther

SpecEvents == InitEvents /\ [][NextEvents]_vars

\* ------------------------------------------------------------------ claims
\* load_script is running or was the last operation to return, so that opLog
\* is the log of its enqueued events.
LoadLogged == ret.op \in {"load_script", "load_script_sync"}

\* load_script has made all its try-sends.
LoadSent == appPc \notin {"ls_load", "ls_discover", "ls_connect"}

\* C1: every LoadScript the application enqueues is immediately preceded by
\* the Stop of the same load_script call and, once the call has made its
\* sends, followed by Discover and then, when a port was selected and the
\* call did not fail, by Connect, whatever the fill level of the channel.
C1_LoadScriptFramed ==
    LoadLogged =>
        \A i \in 1..Len(opLog) :
            opLog[i] = "LoadScript" =>
                /\ i > 1 /\ opLog[i - 1] = "Stop"
                /\ LoadSent =>
                      /\ Len(opLog) > i /\ opLog[i + 1] = "Discover"
                      /\ (hadSelected /\ ret.val # "Err") =>
                            (Len(opLog) > i + 1 /\ opLog[i + 2] = "Connect")

\* C2: no operation of the application thread waits on the Host->Script
\* channel: wherever the application is about to send, the send completes
\* without the engine taking a step.
C2_NoBlockingSend ==
    /\ appPc = "ls_load" => ENABLED LoadScriptSendLoad
    /\ appPc = "ls_discover" => ENABLED LoadScriptSendDiscover
    /\ appPc = "ls_connect" => ENABLED LoadScriptReconnect
    /\ appPc = "midi_send" => ENABLED ProcessMidiSend

\* C3: when drop gives up the join because Terminate could not be enqueued on
\* a full channel, it has tried to enqueue it more than once.
C3_TerminateRetried ==
    (appPc = "dropped" /\ ~terminateSent /\ RxAlive) => dropAttempts > 1

\* C4: once Terminate has been enqueued, no HostEvent is enqueued on the
\* Host->Script channel any more, so Terminate is enqueued at most once and
\* is the last event put on the channel.
C4_NothingAfterTerminate ==
    [][terminateSent => Len(hostQ') <= Len(hostQ)]_vars

\* Terminate has been enqueued behind another event, and the engine has gone
\* on to take both.
C4_Witness ==
    terminateSent /\ joined /\ nLoads + nMidi > 0

\* The engine has panicked (it exits without emitting Terminated).
EnginePanicked ==
    engState = "panicked" \/ (engState = "exited" /\ nTerminated = 0)

\* C5: when drop has returned, shutdown is complete: the engine has emitted
\* exactly one Terminated and the engine thread has been joined.
C5_ShutdownCompletes ==
    (appPc = "dropped" /\ ~EnginePanicked) => (joined /\ nTerminated = 1)

\* C6: load_script_sync returns Ok only when the Loaded it dequeued was
\* emitted for the LoadScript of this very call.
C6_SyncOkIsOwnLoaded ==
    (ret.op = "load_script_sync" /\ ret.val = "Ok") => ret.data[2] = ret.data[1]

\* C7: after process_engine_events has returned ScriptCrash, the application
\* enqueues no HostEvent on the Host->Script channel.
C7_NoSendAfterCrash ==
    [][crashObserved => Len(hostQ') <= Len(hostQ)]_vars

\* The messages in the buffer: those handled since the last take that no
\* clear_messages has removed.
Buffered == SubSeq(sinceTake, clearedAt + 1, Len(sinceTake))

\* C8 as stated: take_messages returns every message handled since the
\* previous take.
C8_TakeReturnsAllSinceTake ==
    [][TakeMessages => ret'.data = sinceTake]_vars

\* C8 as amended: take_messages returns, in the order they were handled, the
\* messages handled since the previous take or, if later, since the buffer
\* was last cleared by a connect; it leaves the buffer empty, and returns no
\* message an earlier take returned.
C8_TakeReturnsBuffered ==
    [][TakeMessages =>
          /\ ret'.data = Buffered
          /\ messages' = <<>>
          /\ \A i \in 1..Len(ret'.data) : ret'.data[i] \notin taken]_vars

\* A take has returned two messages, in the order they were produced.
C8_Witness ==
    ret.op = "take_messages" /\ ret.data = <<1, 2>>

\* C9: after connect_to_midi_input_by_index(i) has returned Ok for the index
\* of an enumerated port, the selected port is that port and the message
\* buffer is empty.
C9_ConnectSelectsAndClears ==
    (ret.op = "connect" /\ ret.val = "Ok" /\ ret.data[1] \in 1..NumPorts) =>
        (selected_port_name = port_names[ret.data[1]] /\ messages = <<>>)

\* A connect to the port already selected has returned Ok (the Connect of the
\* first connect is still queued), and a connect has cleared a buffer that
\* held messages.
C9_Witness ==
    /\ ret.op = "connect" /\ ret.val = "Ok"
    /\ clearedAt > 0
    /\ Len(hostQ) = 2 /\ hostQ[1].t = "Connect" /\ hostQ[2] = hostQ[1]

\* The last alert handled since the alert was last taken, if any.
LatestAlert == IF alertLog = <<>> THEN None ELSE alertLog[Len(alertLog)]

\* A step in which take_alert or wait_for_alert hands out the alert slot.
AlertTaken ==
    \/ TakeAlert
    \/ WaitForAlertTimeout
    \/ WaitForAlertCheck /\ appPc' = "idle"

\* C10: the alert slot holds the last alert handled since it was last taken,
\* and nothing when none was; take_alert and wait_for_alert return that alert
\* and leave the slot empty.
C10_AlertSlotLatest ==
    /\ [](alert_message = LatestAlert)
    /\ [][AlertTaken =>
             /\ ret'.data = IF alertLog = <<>> THEN <<>> ELSE <<LatestAlert>>
             /\ alert_message' = None]_vars

\* Two different alerts have been handled since the alert was last taken and
\* the slot holds the second.
C10_Witness ==
    /\ Len(alertLog) > 1 /\ alertLog[1] # alertLog[2]
    /\ alert_message = alertLog[Len(alertLog)]

\* C11: the message buffer never holds more than its configured capacity,
\* however many Midi script events are handled between two takes.
C11_RingBounded == Len(messages) <= MessageRingCap

\* No event of the batch is a Modify event.
NoModify(batch) == \A i \in 1..Len(batch) : batch[i] # "Modify"

\* C12: a process_file_events that finds only Create and Delete events and
\* watcher errors pending reloads nothing: it enqueues no HostEvent, leaves
\* the script path, the script name and the installed watcher as they are,
\* and returns Continue.
C12_IgnoredEventsNoReload ==
    [][(ProcessFileEvents /\ NoModify(fsQ)) =>
          /\ hostQ' = hostQ
          /\ script_path' = script_path
          /\ selected_script_name' = selected_script_name
          /\ file_watcher' = file_watcher
          /\ ret' = Result("process_file_events", "Continue", <<>>)]_vars

\* process_file_events has returned after collecting a Delete event and a
\* watcher error, with a script loaded and watched.
C12_Witness ==
    /\ ret = Result("process_file_events", "Continue", <<>>)
    /\ fsBatch = <<"Delete", "Error">>
    /\ file_watcher # None /\ script_path = file_watcher

\* The number of Modify events of the batch.
NumModify(batch) == Cardinality({i \in 1..Len(batch) : batch[i] = "Modify"})

\* The number of events of kind t the operation has enqueued.
Enqueued(t) == Cardinality({i \in 1..Len(opLog) : opLog[i] = t})

\* C13: when process_file_events has returned from a batch with several
\* Modify events, it has enqueued exactly one Stop and one LoadScript, in
\* that order, and no event of the batch is left for a later call.
C13_BurstOneReload ==
    (ret.op = "process_file_events" /\ ret.val # "pending"
        /\ NumModify(fsBatch) > 1) =>
        /\ Enqueued("Stop") = 1 /\ Enqueued("LoadScript") = 1
        /\ opLog[1] = "Stop" /\ opLog[2] = "LoadScript"
        /\ (fsQ # <<>> => file_watcher # None)

\* C14: a load_script with a path that is no existing regular file returns
\* an error, enqueues no HostEvent and leaves the script path, the script
\* name and the file watcher with its pending events as they are.
C14_InvalidPathNoEffect ==
    [][((LoadScript \/ LoadScriptSync) /\ ret'.val = "Err" /\ ret'.data = <<3>>) =>
          /\ hostQ' = hostQ
          /\ script_path' = script_path
          /\ selected_script_name' = selected_script_name
          /\ file_watcher' = file_watcher /\ fsQ' = fsQ
          /\ appPc' = "idle"]_vars

\* load_script of a missing path has returned an error while a script is
\* loaded and watched and its events are still queued.
C14_Witness ==
    /\ ret = Result("load_script", "Err", <<3>>)
    /\ script_path = 1 /\ file_watcher = 1
    /\ hostQ # <<>> /\ fsQ # <<>>

\* The payloads of the events of kind t of a channel, in channel order.
Payloads(q, t) ==
    LET sel == SelectSeq(q, LAMBDA ev : ev.t = t)
    IN  [i \in 1..Len(sel) |-> sel[i].a]

\* The messages the device has produced that no take has handed out yet, in
\* the order the device produced them.
NotYetTaken == [i \in 1..(nMidi - Cardinality(taken)) |-> Cardinality(taken) + i]

\* C15: with the echo script loaded and no overflow, the messages handed out
\* by take_messages are the messages the device produced, in order: every
\* take returns the next messages of the device's sequence, and the produced
\* messages not yet handed out are, in order, in the buffer, on the
\* Script->Host channel, on the Host->Script channel and in the batch being
\* forwarded.
C15_EchoRoundTrip ==
    /\ [](messages \o Payloads(scriptQ, "Midi") \o Payloads(hostQ, "Midi")
             \o midiBatch = NotYetTaken)
    /\ [][TakeMessages =>
             ret'.data = SubSeq(NotYetTaken, 1, Len(ret'.data))]_vars

\* Both messages of the device have been handed out, by two takes.
C15_Witness ==
    /\ taken = {1, 2} /\ nMidi = 2
    /\ ret = Result("take_messages", "Ok", <<2>>)

\* C16: when Enter has been handled on a selected device row, a capture
\* stream is open on the device of that row: in the App after on_keypress
\* returned Continue, and in the TerminalApp after the UI reported the
\* selection of the device row.
C16_EnterConnects ==
    /\ (auRet.op = "on_keypress" /\ auRet.ev = "Enter"
            /\ auRet.val = "Continue" /\ auRet.row # None) =>
          stream = auRet.row
    /\ (auRet.op = "terminal_on_keypress" /\ auRet.ev = "SelectDevice") =>
          app_stream = auRet.row

\* The samples of channel 1 of the frames of the capture channel, oldest
\* first.
FirstChannel(q) == [k \in 1..Len(q) |-> q[k][1][1]]

\* The frames of the capture channel are in the order the device produced
\* them.
Ordered(q) == \A j, k \in 1..Len(q) : j < k => q[j][1][1] < q[k][1][1]

Aligned(audio, channel_data) ==
    [i \in 1..Len(channel_data) |->
        (IF i <= Len(audio) THEN audio[i] ELSE <<>>) \o channel_data[i]]

RECURSIVE AlignedDrain(_, _)
AlignedDrain(audio, q) ==
    IF q = <<>> THEN audio
    ELSE AlignedDrain(Aligned(audio, Head(q)), Tail(q))

\* C18: a drain leaves the audio buffer aligned with the frames: after each
\* frame the buffer has the channels of the frame, and each has the frame's
\* samples appended, whatever the channel count of the buffer was.
C18_DrainAligned ==
    [][(Update /\ is_running) =>
          audio_buffer' = AlignedDrain(audio_buffer, capQ)]_vars

\* A script event process_script_events returns on: Loaded, or a Stop control
\* request.
EndsCall(ev) == ev.t = "Loaded" \/ (ev.t = "Control" /\ ev.a = Stop)

\* What process_script_events returns when the last event it dequeued is ev.
ResultOn(ev) ==
    IF ev.t = "Loaded" THEN {"ScriptLoaded"}
    ELSE IF EndsCall(ev) THEN {"Stopping"}
    ELSE IF ev.t = "Connect" THEN {"Continue", "Err"}
    ELSE {"Continue"}

\* C19: a process_script_events call dequeues the first k events of the
\* Script->Host channel, in order, up to and including the first Loaded or
\* Stop control request (or a connect request that fails), and leaves every
\* event behind it in the channel for the next call; each Midi and Alert it
\* dequeues is handled once, in channel order.
C19_EventsOnceInOrder ==
    [][ProcessScriptEventsCall =>
          \E k \in 0..Len(scriptQ) :
              /\ scriptQ' = SubSeq(scriptQ, k + 1, Len(scriptQ))
              /\ \A i \in 1..(k - 1) : ~EndsCall(scriptQ[i])
              /\ k < Len(scriptQ) =>
                    (k > 0 /\ (EndsCall(scriptQ[k]) \/ ret'.val = "Err"))
              /\ ret'.val \in (IF k = 0 THEN {"Continue"} ELSE ResultOn(scriptQ[k]))
              /\ sinceTake' = sinceTake \o Payloads(SubSeq(scriptQ, 1, k), "Midi")
              /\ alertLog' = alertLog \o Payloads(SubSeq(scriptQ, 1, k), "Alert")]_vars

\* process_script_events has returned Stopping and the Midi event that was
\* behind the Stop request is still in the channel.
C19_Witness ==
    /\ ret = Result("process_script_events", "Stopping", <<>>)
    /\ scriptQ # <<>> /\ Head(scriptQ).t = "Midi"

\* The number of Stop control requests in the Script->Host channel.
StopRequests(q) ==
    Cardinality({i \in 1..Len(q) : q[i].t = "Control" /\ q[i].a = Stop})

\* C20: the step of the application that dequeues a Stop control request
\* returns Stopping to the caller of the operation.
C20_StopReported ==
    [][StopRequests(scriptQ') < StopRequests(scriptQ) =>
          ret'.val = "Stopping"]_vars

\* C21: load_script is all-or-nothing: when it has returned an error it has
\* enqueued neither Stop nor LoadScript, and the step in which it fails
\* leaves the script path and the script name as they were; when it has
\* enqueued LoadScript it returns Ok(Continue).
C21_LoadAllOrNothing ==
    /\ []((ret.op = "load_script" /\ ret.val = "Err") =>
             (Enqueued("Stop") = 0 /\ Enqueued("LoadScript") = 0))
    /\ []((ret.op = "load_script" /\ ret.val # "pending"
             /\ Enqueued("LoadScript") > 0) => ret.val = "Continue")
    /\ [][(LoadScript /\ ret'.val = "Err") =>
             /\ script_path' = script_path
             /\ selected_script_name' = selected_script_name]_vars

====
